---- MODULE Spec2Model ----
(***************************************************************************)
(* Binned physics-performance metrics of scripts/plot_cocoa.py.            *)
(*                                                                         *)
(* One call of a binned-ratio routine (calc_efficiencies,                  *)
(* plot_efficency_and_fakerate, calc_classification_p) is a run of the     *)
(* state machine: the arguments are chosen in Init, the selector check is  *)
(* one step, every iteration of the `for i in range(len(bins) - 1)` loop   *)
(* is one step, and the return is one step.                                *)
(*                                                                         *)
(* float64 values are exact rationals [num, den] with den > 0, extended    *)
(* by NaN = 0/0 and +-Inf = +-1/0 as numpy's division produces them.       *)
(***************************************************************************)
EXTENDS Integers, Sequences, FiniteSets, TLC

VARIABLES
    fn,                   \* the routine that is called
    df,                   \* argument df: the table, a sequence of rows
    bins,                 \* argument bins: the sequence of boundaries
    mask,                 \* argument mask: the PID-category selector
    pc,                   \* "call", "loop", "done" (returned) or "raised"
    i,                    \* the loop variable of `for i in range(len(bins) - 1)`
    efficiencies,
    efficiencies_err,
    fake_rate,
    fake_rate_err,
    corr_class_prob,
    corr_class_prob_err,
    \* a call of calc_deltaphi(t_phi, pred_phi)
    phi_pc,               \* "idle", "call", "line546", "line547", "line548", "done"
    t_phi,                \* argument t_phi: an array of angles
    pred_phi,             \* argument pred_phi: an array of angles
    delta_phi,            \* the local delta_phi
    \* a call of correct_jet_pt or of plot_jet_metrics_from_jets
    jfn,                  \* the routine that is called
    jpc,                  \* "idle", "call", "bins", "returned", "events", "done", "raised"
    heap,                 \* the dataframe objects: heap[ref] is a jets table
    jets_df,              \* the name jets_df: a reference into heap
    corrected_jets_df,    \* the name corrected_jets_df: a reference into heap
    jbins,                \* argument bins of correct_jet_pt
    ji,                   \* the loop variable i of correct_jet_pt
    correction_factors,   \* per call of correct_jet_pt, the corr_factor printed for each bin
    jets_before,          \* per call of correct_jet_pt, the argument table as the call began
    jets_after,           \* per call of correct_jet_pt, the returned table as the call ended
    ei,                   \* the loop variable i of plot_jet_metrics_from_jets
    lists,                \* the lists nParicles_truth .. relrespt of plot_jet_metrics_from_jets
    \* a call of plot_distribution(truth_list, feature_list)
    pd_pc,                \* "idle", "loop", "done"
    event_list,           \* truth_list and feature_list: per event, the rows of its hits
    pd_i,                 \* the loop variable i of plot_distribution
    n_tracks,
    n_hits,
    n_particles,
    n_charged_had,
    n_lepton,
    n_photon,
    n_neutral_had,
    \* a run of analyse
    an_pc,                \* "idle", "files", "endcaps", "done"
    file_lengths,         \* files_to_be_tested: per file, len(file_data)
    nevents,              \* argument nevents
    an_i,                 \* the loop variable i of analyse (the file)
    an_j,                 \* the loop variable j of analyse (the endcap)
    event_id,             \* the local event_id
    processed_events      \* per processed endcap, its file, its index and its event id

ratioVars == <<fn, df, bins, mask, pc, i, efficiencies, efficiencies_err,
               fake_rate, fake_rate_err, corr_class_prob, corr_class_prob_err>>

phiVars == <<phi_pc, t_phi, pred_phi, delta_phi>>

jetVars == <<jfn, jpc, heap, jets_df, corrected_jets_df, jbins, ji,
             correction_factors, jets_before, jets_after, ei, lists>>

distVars == <<pd_pc, event_list, pd_i, n_tracks, n_hits, n_particles,
              n_charged_had, n_lepton, n_photon, n_neutral_had>>

anVars == <<an_pc, file_lengths, nevents, an_i, an_j, event_id, processed_events>>

vars == <<ratioVars, phiVars, jetVars, distVars, anVars>>

(***************************************************************************)
(* float64 arithmetic, as far as the routines use it                       *)
(***************************************************************************)
RECURSIVE Gcd(_, _)
Gcd(a, b) == IF b = 0 THEN a ELSE Gcd(b, a % b)

Abs(a) == IF a < 0 THEN -a ELSE a

Sign(a) == IF a < 0 THEN -1 ELSE IF a > 0 THEN 1 ELSE 0

NaN == [num |-> 0, den |-> 0]

\* the float n/d of two integers; d = 0 gives NaN (0/0) or +-Inf (n/0),
\* which is what numpy's true division returns (with a RuntimeWarning).
Frac(n, d) ==
    IF d = 0 THEN [num |-> Sign(n), den |-> 0]
    ELSE LET g == Gcd(Abs(n), Abs(d))
             s == Sign(d)
         IN  [num |-> (s * n) \div g, den |-> (s * d) \div g]

Float(n) == [num |-> n, den |-> 1]

IsNaN(x) == x.den = 0 /\ x.num = 0

IsInf(x) == x.den = 0 /\ x.num # 0

IsFinite(x) == x.den # 0

\* x >= y and x < y on floats: every comparison with NaN is False.
FGe(x, y) ==
    /\ ~IsNaN(x) /\ ~IsNaN(y)
    /\ IF IsInf(x) THEN x.num > 0 \/ (IsInf(y) /\ y.num < 0)
       ELSE IF IsInf(y) THEN y.num < 0
       ELSE x.num * y.den >= y.num * x.den

FLt(x, y) ==
    /\ ~IsNaN(x) /\ ~IsNaN(y)
    /\ IF IsInf(x) THEN x.num < 0 /\ ~(IsInf(y) /\ y.num < 0)
       ELSE IF IsInf(y) THEN y.num > 0
       ELSE x.num * y.den < y.num * x.den

\* x * y, x - y and x / y on floats (finite operands or NaN; the routines
\* never multiply or subtract an infinity).
FMul(x, y) ==
    IF ~IsFinite(x) \/ ~IsFinite(y) THEN NaN
    ELSE Frac(x.num * y.num, x.den * y.den)

FSub(x, y) ==
    IF ~IsFinite(x) \/ ~IsFinite(y) THEN NaN
    ELSE Frac(x.num * y.den - y.num * x.den, x.den * y.den)

FDiv(x, y) ==
    IF ~IsFinite(x) \/ ~IsFinite(y) THEN NaN
    ELSE Frac(x.num * y.den, x.den * y.num)

\* np.sqrt(x): the result is kept as the non-negative root of its radicand;
\* the root of NaN or of a negative number is NaN.
Sqrt(x) ==
    IF IsNaN(x) \/ x.num < 0 THEN [radicand |-> NaN] ELSE [radicand |-> x]

(***************************************************************************)
(* The arguments of a call                                                 *)
(***************************************************************************)
\* the selector argument `mask`: None, or an integer
None == [isNone |-> TRUE, v |-> 0]

Sel(k) == [isNone |-> FALSE, v |-> k]

Selectors == {None, Sel(0), Sel(1), Sel(2), Sel(3)}

\* the PID code lists of the `isin` calls
PhotonPIDs == {22}

NeutralHadronPIDs == {130, 310, 311, 2112, -2112, 3122, -3122, 3322, -3322}

ChargedPIDs == {11, -11, 13, -13, 211, -211, 321, -321, 2212, -2212,
                3112, -3112, 3222, -3222, 3312, -3312}

\* Series.isin(values): NaN is in no list
IsIn(x, values) == IsFinite(x) /\ x.den = 1 /\ x.num \in values

\* the number of rows of the tables that are enumerated in full
MaxRows == 2

\* the truth half and the predicted half of a row: a half that is absent
\* (no matched truth, no predicted shower) is NaN in all its columns;
\* energies are in GeV
TruthHalves ==
    << [truthHitAssignedEnergies |-> NaN,       truthHitAssignedPIDs |-> NaN],
       [truthHitAssignedEnergies |-> Float(2),  truthHitAssignedPIDs |-> Float(22)],
       [truthHitAssignedEnergies |-> Float(2),  truthHitAssignedPIDs |-> Float(2112)],
       [truthHitAssignedEnergies |-> Float(12), truthHitAssignedPIDs |-> Float(22)],
       [truthHitAssignedEnergies |-> Float(12), truthHitAssignedPIDs |-> Float(2112)] >>

PredHalves ==
    << [pred_energy |-> NaN,          pred_id_value |-> NaN],
       [pred_energy |-> Frac(21, 10), pred_id_value |-> Float(0)],
       [pred_energy |-> Frac(21, 10), pred_id_value |-> Float(1)],
       [pred_energy |-> Frac(23, 2),  pred_id_value |-> Float(0)],
       [pred_energy |-> Frac(23, 2),  pred_id_value |-> Float(1)] >>

Row(t, p) ==
    [truthHitAssignedEnergies |-> t.truthHitAssignedEnergies,
     truthHitAssignedPIDs     |-> t.truthHitAssignedPIDs,
     pred_energy              |-> p.pred_energy,
     pred_id_value            |-> p.pred_id_value]

\* the rows, numbered: a row has a truth half, a predicted half or both
\* (the number 0 would be the row with neither)
RowNumbers == 1..(Len(TruthHalves) * Len(PredHalves) - 1)

RowAt(c) ==
    Row(TruthHalves[(c \div Len(PredHalves)) + 1], PredHalves[(c % Len(PredHalves)) + 1])

\* truth energies [2.0, 2.0, 12.0] with predictions [2.1, NaN, 11.5]
ExampleTable ==
    << [truthHitAssignedEnergies |-> Float(2), truthHitAssignedPIDs |-> Float(22),
        pred_energy |-> Frac(21, 10), pred_id_value |-> Float(0)],
       [truthHitAssignedEnergies |-> Float(2), truthHitAssignedPIDs |-> Float(22),
        pred_energy |-> NaN, pred_id_value |-> NaN],
       [truthHitAssignedEnergies |-> Float(12), truthHitAssignedPIDs |-> Float(2112),
        pred_energy |-> Frac(23, 2), pred_id_value |-> Float(1)] >>

\* a table with charged particles (pi+, electron) and the class 2
ChargedTable ==
    << [truthHitAssignedEnergies |-> Float(2), truthHitAssignedPIDs |-> Float(211),
        pred_energy |-> Frac(21, 10), pred_id_value |-> Float(2)],
       [truthHitAssignedEnergies |-> Float(2), truthHitAssignedPIDs |-> Float(11),
        pred_energy |-> Frac(21, 10), pred_id_value |-> Float(0)],
       [truthHitAssignedEnergies |-> Float(12), truthHitAssignedPIDs |-> Float(211),
        pred_energy |-> NaN, pred_id_value |-> NaN] >>

\* the tables of n rows, one table for every multiset of rows (the routines
\* only count rows: the order of the rows enters no result)
TablesOf(n) ==
    {[k \in 1..n |-> RowAt(g[k])] :
        g \in {f \in [1..n -> RowNumbers] : \A k \in 1..(n - 1) : f[k] <= f[k + 1]}}

Tables == UNION {TablesOf(n) : n \in 0..MaxRows} \cup {ExampleTable, ChargedTable}

\* bin partitions: strictly increasing ones, and malformed ones (a single
\* boundary, decreasing boundaries)
IncreasingBins == {<<1, 10, 20>>, <<1, 2, 12>>, <<3, 11>>}

MalformedBins == {<<5>>, <<20, 1>>}

BinPartitions == IncreasingBins \cup MalformedBins

StrictlyIncreasing(b) ==
    /\ Len(b) >= 2
    /\ \A k \in 1..(Len(b) - 1) : b[k] < b[k + 1]

Routines == {"calc_efficiencies", "plot_efficency_and_fakerate", "calc_classification_p"}

(***************************************************************************)
(* Masks and counts                                                        *)
(***************************************************************************)
\* np.sum(m[f]): the number of rows of the boolean vector m that the
\* boolean vector f selects and that are True
SumMasked(m, f) == Cardinality({r \in DOMAIN m : f[r] /\ m[r]})

\* np.sum(m)
SumMask(m) == Cardinality({r \in DOMAIN m : m[r]})

\* faulty variant: the validity of the prediction read from the truth column
mask_predicted_FromTruth(d) ==
    [r \in DOMAIN d |-> ~IsNaN(d[r].truthHitAssignedEnergies)]

\* mask_predicted = np.isnan(df['pred_energy']) == False
mask_predicted(d) == [r \in DOMAIN d |-> ~IsNaN(d[r].pred_energy)]

\* mask_truth = np.isnan(df['truthHitAssignedEnergies']) == False
mask_truth(d) == [r \in DOMAIN d |-> ~IsNaN(d[r].truthHitAssignedEnergies)]

\* faulty variant: the upper boundary of a bin included (<= for <)
mask_bintruth_Closed(d, b, k) ==
    [r \in DOMAIN d |->
        /\ FGe(d[r].truthHitAssignedEnergies, Float(b[k + 1]))
        /\ ~FLt(Float(b[k + 2]), d[r].truthHitAssignedEnergies)
        /\ ~IsNaN(d[r].truthHitAssignedEnergies)]

\* the masks of iteration k (k = 0 .. len(bins) - 2) of the bin loop;
\* bins[k] of the code is b[k + 1] of the sequence b
mask_bintruth(d, b, k) ==
    [r \in DOMAIN d |->
        /\ FGe(d[r].truthHitAssignedEnergies, Float(b[k + 1]))
        /\ FLt(d[r].truthHitAssignedEnergies, Float(b[k + 2]))]

mask_binpred(d, b, k) ==
    [r \in DOMAIN d |->
        /\ FGe(d[r].pred_energy, Float(b[k + 1]))
        /\ FLt(d[r].pred_energy, Float(b[k + 2]))]

\* faulty variant: matched taken from the bin of the predicted energy
matched_ByPredBin(d, b, k) ==
    [r \in DOMAIN d |->
        /\ ~IsNaN(d[r].pred_energy)
        /\ FGe(d[r].pred_energy, Float(b[k + 1]))
        /\ FLt(d[r].pred_energy, Float(b[k + 2]))]

\* matched = np.logical_and(mask_predicted, mask_bintruth)
matched(d, b, k) ==
    [r \in DOMAIN d |-> mask_predicted(d)[r] /\ mask_bintruth(d, b, k)[r]]

\* faked = np.logical_and(mask_binpred, np.logical_not(mask_truth))
faked(d, b, k) ==
    [r \in DOMAIN d |-> mask_binpred(d, b, k)[r] /\ ~mask_truth(d)[r]]

\* faulty variant: a guarded division that returns 0 for an empty denominator
Ratio_ZeroGuard(n, d) == IF d = 0 THEN Float(0) ELSE Frac(n, d)

\* a ratio of two counts, and np.sqrt(p * (1 - p) / n) with a count n
Ratio(n, d) == Frac(n, d)

\* faulty variant: a zero sample size gives the uncertainty 0
RatioErr_ZeroGuard(p, n) ==
    IF n = 0 THEN Sqrt(Float(0))
    ELSE Sqrt(FDiv(FMul(p, FSub(Float(1), p)), Float(n)))

RatioErr(p, n) == Sqrt(FDiv(FMul(p, FSub(Float(1), p)), Float(n)))

(***************************************************************************)
(* calc_efficiencies(df, bins, mask=None)                                  *)
(***************************************************************************)
\* faulty variant: the selector 2 let through as well
CE_Accepts_AlsoTwo(m) == m.isNone \/ m.v = 0 \/ m.v = 1 \/ m.v = 2

\* the selector check of calc_efficiencies: None, 0 and 1 pass, every
\* other value raises ValueError("mask must be 0 or 1")
CE_Accepts(m) == m.isNone \/ m.v = 0 \/ m.v = 1

CE_mask_PID_truth(d, m) ==
    [r \in DOMAIN d |->
        IF m.isNone THEN TRUE
        ELSE IF m.v = 0 THEN IsIn(d[r].truthHitAssignedPIDs, PhotonPIDs)
        ELSE IsIn(d[r].truthHitAssignedPIDs, NeutralHadronPIDs)]

CE_mask_PID_pred(d, m) ==
    [r \in DOMAIN d |->
        IF m.isNone THEN TRUE
        ELSE IsIn(d[r].pred_id_value, {m.v})]

\* faulty variant: the truth category left out of the numerator's filter
CE_mask_PID_matched_PredOnly(d, m) ==
    [r \in DOMAIN d |-> IF m.isNone THEN TRUE ELSE IsIn(d[r].pred_id_value, {m.v})]

CE_mask_PID_matched(d, m) ==
    [r \in DOMAIN d |-> CE_mask_PID_truth(d, m)[r] /\ CE_mask_PID_pred(d, m)[r]]

CE_eff(d, b, m, k) ==
    Ratio(SumMasked(matched(d, b, k), CE_mask_PID_truth(d, m)),
          SumMasked(mask_bintruth(d, b, k), CE_mask_PID_truth(d, m)))

CE_eff_err(d, b, m, k) ==
    RatioErr(CE_eff(d, b, m, k),
             SumMasked(matched(d, b, k), CE_mask_PID_truth(d, m)))

\* faulty variant: the numerator of the fake rate filtered by the truth category
CE_fake_TruthFilter(d, b, m, k) ==
    Frac(Cardinality({r \in DOMAIN d :
             /\ faked(d, b, k)[r]
             /\ (m.isNone \/ IsIn(d[r].truthHitAssignedPIDs,
                     IF m.v = 0 THEN PhotonPIDs ELSE NeutralHadronPIDs))}),
         Cardinality({r \in DOMAIN d :
             /\ mask_binpred(d, b, k)[r]
             /\ (m.isNone \/ IsIn(d[r].pred_id_value, {m.v}))}))

CE_fake(d, b, m, k) ==
    Ratio(SumMasked(faked(d, b, k), CE_mask_PID_pred(d, m)),
          SumMasked(mask_binpred(d, b, k), CE_mask_PID_pred(d, m)))

CE_fake_err(d, b, m, k) ==
    RatioErr(CE_fake(d, b, m, k),
             SumMasked(faked(d, b, k), CE_mask_PID_pred(d, m)))

CE_cc_prob(d, b, m, k) ==
    Ratio(SumMasked(matched(d, b, k), CE_mask_PID_matched(d, m)),
          SumMasked(matched(d, b, k), CE_mask_PID_truth(d, m)))

\* faulty variant: the numerator count as the sample size of the uncertainty
CE_cc_prob_err_ByNumerator(d, b, m, k) ==
    Sqrt(FDiv(FMul(CE_cc_prob(d, b, m, k), FSub(Float(1), CE_cc_prob(d, b, m, k))),
              Float(Cardinality({r \in DOMAIN d :
                  /\ matched(d, b, k)[r] /\ CE_mask_PID_truth(d, m)[r]
                  /\ (m.isNone \/ IsIn(d[r].pred_id_value, {m.v}))}))))

CE_cc_prob_err(d, b, m, k) ==
    RatioErr(CE_cc_prob(d, b, m, k),
             SumMasked(matched(d, b, k), CE_mask_PID_truth(d, m)))

\* faulty variant: the loop stops one bin early
InRange_OneShort(b, k) == k < Len(b) - 2

\* range(len(bins) - 1) still has the value k to run
InRange(b, k) == k < Len(b) - 1

CalcEfficienciesEnter ==
    /\ fn = "calc_efficiencies" /\ pc = "call"
    /\ UNCHANGED <<phiVars, jetVars, distVars, anVars>>
    /\ pc' = IF CE_Accepts(mask) THEN "loop" ELSE "raised"
    /\ UNCHANGED <<fn, df, bins, mask, i, efficiencies, efficiencies_err,
                   fake_rate, fake_rate_err, corr_class_prob, corr_class_prob_err>>

CalcEfficienciesBin ==
    /\ fn = "calc_efficiencies" /\ pc = "loop"
    /\ UNCHANGED <<phiVars, jetVars, distVars, anVars>>
    /\ InRange(bins, i)
    /\ efficiencies' = Append(efficiencies, CE_eff(df, bins, mask, i))
    /\ efficiencies_err' = Append(efficiencies_err, CE_eff_err(df, bins, mask, i))
    /\ fake_rate' = Append(fake_rate, CE_fake(df, bins, mask, i))
    /\ fake_rate_err' = Append(fake_rate_err, CE_fake_err(df, bins, mask, i))
    /\ corr_class_prob' = Append(corr_class_prob, CE_cc_prob(df, bins, mask, i))
    /\ corr_class_prob_err' = Append(corr_class_prob_err, CE_cc_prob_err(df, bins, mask, i))
    /\ i' = i + 1
    /\ UNCHANGED <<fn, df, bins, mask, pc>>

CalcEfficienciesReturn ==
    /\ fn = "calc_efficiencies" /\ pc = "loop"
    /\ UNCHANGED <<phiVars, jetVars, distVars, anVars>>
    /\ ~InRange(bins, i)
    /\ pc' = "done"
    /\ UNCHANGED <<fn, df, bins, mask, i, efficiencies, efficiencies_err,
                   fake_rate, fake_rate_err, corr_class_prob, corr_class_prob_err>>

(***************************************************************************)
(* plot_efficency_and_fakerate(df, bins): the ratios it plots              *)
(***************************************************************************)
PF_eff(d, b, k) == Ratio(SumMask(matched(d, b, k)), SumMask(mask_bintruth(d, b, k)))

PF_eff_err(d, b, k) == RatioErr(PF_eff(d, b, k), SumMask(matched(d, b, k)))

PF_fake(d, b, k) == Ratio(SumMask(faked(d, b, k)), SumMask(mask_binpred(d, b, k)))

PF_fake_err(d, b, k) == RatioErr(PF_fake(d, b, k), SumMask(faked(d, b, k)))

\* the routine has no selector: the loop starts at once
PlotEffFakeEnter ==
    /\ fn = "plot_efficency_and_fakerate" /\ pc = "call"
    /\ UNCHANGED <<phiVars, jetVars, distVars, anVars>>
    /\ pc' = "loop"
    /\ UNCHANGED <<fn, df, bins, mask, i, efficiencies, efficiencies_err,
                   fake_rate, fake_rate_err, corr_class_prob, corr_class_prob_err>>

PlotEffFakeBin ==
    /\ fn = "plot_efficency_and_fakerate" /\ pc = "loop"
    /\ UNCHANGED <<phiVars, jetVars, distVars, anVars>>
    /\ InRange(bins, i)
    /\ efficiencies' = Append(efficiencies, PF_eff(df, bins, i))
    /\ efficiencies_err' = Append(efficiencies_err, PF_eff_err(df, bins, i))
    /\ fake_rate' = Append(fake_rate, PF_fake(df, bins, i))
    /\ fake_rate_err' = Append(fake_rate_err, PF_fake_err(df, bins, i))
    /\ i' = i + 1
    /\ UNCHANGED <<fn, df, bins, mask, pc, corr_class_prob, corr_class_prob_err>>

\* the arrays yeff, yerr_eff, yfake, yerr_fake are made from the lists
PlotEffFakeArrays ==
    /\ fn = "plot_efficency_and_fakerate" /\ pc = "loop"
    /\ UNCHANGED <<phiVars, jetVars, distVars, anVars>>
    /\ ~InRange(bins, i)
    /\ pc' = "done"
    /\ UNCHANGED <<fn, df, bins, mask, i, efficiencies, efficiencies_err,
                   fake_rate, fake_rate_err, corr_class_prob, corr_class_prob_err>>

(***************************************************************************)
(* calc_classification_p(df, bins, mask)                                   *)
(***************************************************************************)
\* the selector check of calc_classification_p: 0, 1 and 2 pass, every
\* other value (None too) raises ValueError("mask must be 0, 1 or 2")
CP_Accepts(m) == ~m.isNone /\ (m.v = 0 \/ m.v = 1 \/ m.v = 2)

CP_mask_PID_truth(d, m) ==
    [r \in DOMAIN d |->
        IF m.v = 0 THEN IsIn(d[r].truthHitAssignedPIDs, PhotonPIDs)
        ELSE IF m.v = 1 THEN IsIn(d[r].truthHitAssignedPIDs, NeutralHadronPIDs)
        ELSE IsIn(d[r].truthHitAssignedPIDs, ChargedPIDs)]

CP_mask_PID_pred(d, m) == [r \in DOMAIN d |-> IsIn(d[r].pred_id_value, {m.v})]

CP_mask_PID_matched(d, m) ==
    [r \in DOMAIN d |-> CP_mask_PID_truth(d, m)[r] /\ CP_mask_PID_pred(d, m)[r]]

CP_cc_prob(d, b, m, k) ==
    Ratio(SumMasked(matched(d, b, k), CP_mask_PID_matched(d, m)),
          SumMasked(matched(d, b, k), CP_mask_PID_truth(d, m)))

CP_cc_prob_err(d, b, m, k) ==
    RatioErr(CP_cc_prob(d, b, m, k),
             SumMasked(matched(d, b, k), CP_mask_PID_truth(d, m)))

CalcClassificationPEnter ==
    /\ fn = "calc_classification_p" /\ pc = "call"
    /\ UNCHANGED <<phiVars, jetVars, distVars, anVars>>
    /\ pc' = IF CP_Accepts(mask) THEN "loop" ELSE "raised"
    /\ UNCHANGED <<fn, df, bins, mask, i, efficiencies, efficiencies_err,
                   fake_rate, fake_rate_err, corr_class_prob, corr_class_prob_err>>

CalcClassificationPBin ==
    /\ fn = "calc_classification_p" /\ pc = "loop"
    /\ UNCHANGED <<phiVars, jetVars, distVars, anVars>>
    /\ InRange(bins, i)
    /\ corr_class_prob' = Append(corr_class_prob, CP_cc_prob(df, bins, mask, i))
    /\ corr_class_prob_err' = Append(corr_class_prob_err, CP_cc_prob_err(df, bins, mask, i))
    /\ i' = i + 1
    /\ UNCHANGED <<fn, df, bins, mask, pc, efficiencies, efficiencies_err,
                   fake_rate, fake_rate_err>>

CalcClassificationPReturn ==
    /\ fn = "calc_classification_p" /\ pc = "loop"
    /\ UNCHANGED <<phiVars, jetVars, distVars, anVars>>
    /\ ~InRange(bins, i)
    /\ pc' = "done"
    /\ UNCHANGED <<fn, df, bins, mask, i, efficiencies, efficiencies_err,
                   fake_rate, fake_rate_err, corr_class_prob, corr_class_prob_err>>

(***************************************************************************)
(* The specification of the binned-ratio routines                          *)
(***************************************************************************)
\* no call of calc_deltaphi is under way
PhiIdle == phi_pc = "idle" /\ t_phi = <<>> /\ pred_phi = <<>> /\ delta_phi = <<>>

\* the five lists plot_jet_metrics_from_jets fills, all empty
EmptyLists ==
    [nParicles_truth |-> <<>>, nParicles_pred |-> <<>>,
     reseta |-> <<>>, resphi |-> <<>>, relrespt |-> <<>>]

\* no call of a jets routine is under way
JetIdle ==
    /\ jfn = "none" /\ jpc = "idle"
    /\ heap = <<>> /\ jets_df = 0 /\ corrected_jets_df = 0
    /\ jbins = <<>> /\ ji = 0 /\ ei = 0
    /\ correction_factors = <<>>
    /\ jets_before = <<>> /\ jets_after = <<>>
    /\ lists = EmptyLists

\* no call of plot_distribution is under way
DistIdle ==
    /\ pd_pc = "idle" /\ event_list = <<>> /\ pd_i = 0
    /\ n_tracks = <<>> /\ n_hits = <<>> /\ n_particles = <<>>
    /\ n_charged_had = <<>> /\ n_lepton = <<>>
    /\ n_photon = <<>> /\ n_neutral_had = <<>>

\* analyse does not run
AnIdle ==
    /\ an_pc = "idle" /\ file_lengths = <<>> /\ nevents = -1
    /\ an_i = 0 /\ an_j = 0 /\ event_id = 0
    /\ processed_events = <<>>

Init ==
    /\ fn \in Routines
    /\ df \in Tables
    /\ bins \in BinPartitions
    /\ mask \in IF fn = "plot_efficency_and_fakerate" THEN {None} ELSE Selectors
    /\ pc = "call"
    /\ i = 0
    /\ efficiencies = <<>>
    /\ efficiencies_err = <<>>
    /\ fake_rate = <<>>
    /\ fake_rate_err = <<>>
    /\ corr_class_prob = <<>>
    /\ corr_class_prob_err = <<>>
    /\ PhiIdle
    /\ JetIdle
    /\ DistIdle
    /\ AnIdle

Next ==
    \/ CalcEfficienciesEnter
    \/ CalcEfficienciesBin
    \/ CalcEfficienciesReturn
    \/ PlotEffFakeEnter
    \/ PlotEffFakeBin
    \/ PlotEffFakeArrays
    \/ CalcClassificationPEnter
    \/ CalcClassificationPBin
    \/ CalcClassificationPReturn

Spec == Init /\ [][Next]_vars

(***************************************************************************)
(* What the claims speak of: the rows a bin counts, said directly          *)
(***************************************************************************)
\* the selector was accepted: the loop runs or the routine has returned
Accepted == pc \in {"loop", "done"}

InUnitInterval(x) == IsFinite(x) /\ 0 <= x.num /\ x.num <= x.den

\* lo <= v < hi for a float v (NaN is in no interval) and integers lo, hi
Within(v, lo, hi) == IsFinite(v) /\ lo * v.den <= v.num /\ v.num < hi * v.den

\* v is in bin k (k = 0, 1, ...), the interval [b_k, b_{k+1})
InBin(v, k) == Within(v, bins[k + 1], bins[k + 2])

\* the truth PID of the row is in the category the selector names
InCategory(row) ==
    IF mask.isNone THEN TRUE
    ELSE IF mask.v = 0 THEN IsIn(row.truthHitAssignedPIDs, PhotonPIDs)
    ELSE IF mask.v = 1 THEN IsIn(row.truthHitAssignedPIDs, NeutralHadronPIDs)
    ELSE IsIn(row.truthHitAssignedPIDs, ChargedPIDs)

\* the predicted class of the row is the selector
PredictedAs(row) == mask.isNone \/ row.pred_id_value = Float(mask.v)

EffNum(k) ==
    Cardinality({r \in DOMAIN df :
        /\ InCategory(df[r]) /\ ~IsNaN(df[r].pred_energy)
        /\ InBin(df[r].truthHitAssignedEnergies, k)})

EffDen(k) ==
    Cardinality({r \in DOMAIN df :
        InCategory(df[r]) /\ InBin(df[r].truthHitAssignedEnergies, k)})

FakeNum(k) ==
    Cardinality({r \in DOMAIN df :
        /\ PredictedAs(df[r]) /\ InBin(df[r].pred_energy, k)
        /\ IsNaN(df[r].truthHitAssignedEnergies)})

FakeDen(k) ==
    Cardinality({r \in DOMAIN df :
        PredictedAs(df[r]) /\ InBin(df[r].pred_energy, k)})

CcNum(k) ==
    Cardinality({r \in DOMAIN df :
        /\ ~IsNaN(df[r].pred_energy) /\ InBin(df[r].truthHitAssignedEnergies, k)
        /\ InCategory(df[r]) /\ PredictedAs(df[r])})

CcDen(k) ==
    Cardinality({r \in DOMAIN df :
        /\ ~IsNaN(df[r].pred_energy) /\ InBin(df[r].truthHitAssignedEnergies, k)
        /\ InCategory(df[r])})

HasEffFake == fn \in {"calc_efficiencies", "plot_efficency_and_fakerate"}

HasCc == fn \in {"calc_efficiencies", "calc_classification_p"}

(***************************************************************************)
(* C1: for a partition of at least two strictly increasing boundaries,     *)
(* calc_efficiencies returns len(bins) - 1 values of efficiency, of fake   *)
(* rate and of classification probability, each in [0, 1] or NaN.          *)
(***************************************************************************)
C1_RatioCountAndRange ==
    (fn = "calc_efficiencies" /\ pc = "done" /\ StrictlyIncreasing(bins)) =>
        /\ Len(efficiencies) = Len(bins) - 1
        /\ Len(fake_rate) = Len(bins) - 1
        /\ Len(corr_class_prob) = Len(bins) - 1
        /\ \A k \in DOMAIN efficiencies :
               IsNaN(efficiencies[k]) \/ InUnitInterval(efficiencies[k])
        /\ \A k \in DOMAIN fake_rate :
               IsNaN(fake_rate[k]) \/ InUnitInterval(fake_rate[k])
        /\ \A k \in DOMAIN corr_class_prob :
               IsNaN(corr_class_prob[k]) \/ InUnitInterval(corr_class_prob[k])

\* a returned call over two bins with a ratio strictly inside (0, 1) and a NaN
C1_Witness ==
    /\ fn = "calc_efficiencies" /\ pc = "done" /\ StrictlyIncreasing(bins)
    /\ Len(efficiencies) = 2
    /\ \E k \in DOMAIN efficiencies :
           IsFinite(efficiencies[k]) /\ 0 < efficiencies[k].num
                                     /\ efficiencies[k].num < efficiencies[k].den
    /\ \E k \in DOMAIN fake_rate : IsNaN(fake_rate[k])

(***************************************************************************)
(* C2: the efficiency of a bin is the number of rows passing the PID       *)
(* filter with a non-NaN predicted energy and a truth energy in the bin,   *)
(* divided by the number of rows passing the PID filter with a truth       *)
(* energy in the bin; truth [2.0, 2.0, 12.0], predictions [2.1, NaN, 11.5] *)
(* and bins [1, 10, 20] give 0.5 and 1.0.                                  *)
(***************************************************************************)
C2_Efficiency ==
    /\ (HasEffFake /\ Accepted) =>
           \A k \in DOMAIN efficiencies :
               efficiencies[k] = Frac(EffNum(k - 1), EffDen(k - 1))
    /\ (HasEffFake /\ pc = "done" /\ mask = None
           /\ df = ExampleTable /\ bins = <<1, 10, 20>>) =>
           efficiencies = <<Frac(1, 2), Float(1)>>

\* the example has been computed by calc_efficiencies
C2_Witness ==
    /\ fn = "calc_efficiencies" /\ pc = "done" /\ mask = None
    /\ df = ExampleTable /\ bins = <<1, 10, 20>>
    /\ efficiencies = <<Frac(1, 2), Float(1)>>

(***************************************************************************)
(* C3 as stated: if every truth object whose truth energy is in the bin    *)
(* has a valid prediction, the efficiency of the bin is exactly 1.0.       *)
(***************************************************************************)
C3_Original ==
    (HasEffFake /\ Accepted) =>
        \A k \in DOMAIN efficiencies :
            (\A r \in DOMAIN df :
                InBin(df[r].truthHitAssignedEnergies, k - 1) =>
                    ~IsNaN(df[r].pred_energy))
            => efficiencies[k] = Float(1)

(***************************************************************************)
(* C3 amended: if the bin holds at least one truth object that passes the  *)
(* PID filter, and every truth object whose truth energy is in the bin has *)
(* a valid prediction, the efficiency of the bin is exactly 1.0.           *)
(***************************************************************************)
C3_FullyMatchedBin ==
    (HasEffFake /\ Accepted) =>
        \A k \in DOMAIN efficiencies :
            (/\ \E r \in DOMAIN df :
                    /\ InCategory(df[r])
                    /\ InBin(df[r].truthHitAssignedEnergies, k - 1)
             /\ \A r \in DOMAIN df :
                    InBin(df[r].truthHitAssignedEnergies, k - 1) =>
                        ~IsNaN(df[r].pred_energy))
            => efficiencies[k] = Float(1)

\* a bin with two truth objects, both predicted, next to an unpredicted one
C3_Witness ==
    /\ fn = "calc_efficiencies" /\ pc = "done"
    /\ \E k \in DOMAIN efficiencies :
        /\ EffDen(k - 1) = 2
        /\ \A r \in DOMAIN df :
               InBin(df[r].truthHitAssignedEnergies, k - 1) =>
                   ~IsNaN(df[r].pred_energy)
        /\ efficiencies[k] = Float(1)
    /\ \E r \in DOMAIN df :
        ~IsNaN(df[r].truthHitAssignedEnergies) /\ IsNaN(df[r].pred_energy)

(***************************************************************************)
(* C4 as stated: the uncertainty of each of the three ratios is            *)
(* sqrt(p(1-p)/n) with n the numerator count of that ratio.                *)
(***************************************************************************)
C4_Original ==
    /\ (HasEffFake /\ Accepted) =>
           /\ \A k \in DOMAIN efficiencies_err :
                  efficiencies_err[k] = RatioErr(efficiencies[k], EffNum(k - 1))
           /\ \A k \in DOMAIN fake_rate_err :
                  fake_rate_err[k] = RatioErr(fake_rate[k], FakeNum(k - 1))
    /\ (HasCc /\ Accepted) =>
           \A k \in DOMAIN corr_class_prob_err :
               corr_class_prob_err[k] = RatioErr(corr_class_prob[k], CcNum(k - 1))

(***************************************************************************)
(* C4 amended: the uncertainty is sqrt(p(1-p)/n) where n is the numerator  *)
(* count of the ratio for efficiency and fake rate, and the denominator    *)
(* count of the ratio (the matched rows of the bin that pass the truth PID *)
(* filter) for the classification probability.                             *)
(***************************************************************************)
C4_UncertaintySampleSize ==
    /\ (HasEffFake /\ Accepted) =>
           /\ \A k \in DOMAIN efficiencies_err :
                  efficiencies_err[k] = RatioErr(efficiencies[k], EffNum(k - 1))
           /\ \A k \in DOMAIN fake_rate_err :
                  fake_rate_err[k] = RatioErr(fake_rate[k], FakeNum(k - 1))
    /\ (HasCc /\ Accepted) =>
           \A k \in DOMAIN corr_class_prob_err :
               corr_class_prob_err[k] = RatioErr(corr_class_prob[k], CcDen(k - 1))

\* a bin whose classification probability is 1/2: of its two matched rows
\* in the category, one has the predicted class of the selector
C4_Witness ==
    /\ fn = "calc_efficiencies" /\ pc = "done"
    /\ \E k \in DOMAIN corr_class_prob :
        /\ CcNum(k - 1) = 1 /\ CcDen(k - 1) = 2
        /\ corr_class_prob_err[k] = Sqrt(Frac(1, 8))
        /\ efficiencies_err[k] = RatioErr(efficiencies[k], 2)

(***************************************************************************)
(* C5: a bin whose ratio denominator is zero yields NaN in its slot, the   *)
(* other bins keep their values, and the call returns normally: nothing    *)
(* is raised once the loop runs.                                           *)
(***************************************************************************)
C5_ZeroDenominatorIsNaN ==
    /\ (HasEffFake /\ Accepted) =>
           /\ \A k \in DOMAIN efficiencies :
                  IF EffDen(k - 1) = 0 THEN IsNaN(efficiencies[k])
                  ELSE IsFinite(efficiencies[k])
           /\ \A k \in DOMAIN fake_rate :
                  IF FakeDen(k - 1) = 0 THEN IsNaN(fake_rate[k])
                  ELSE IsFinite(fake_rate[k])
    /\ (HasCc /\ Accepted) =>
           \A k \in DOMAIN corr_class_prob :
               IF CcDen(k - 1) = 0 THEN IsNaN(corr_class_prob[k])
               ELSE IsFinite(corr_class_prob[k])
    /\ pc = "raised" => i = 0
    /\ (pc = "done" /\ Len(bins) >= 1) =>
           /\ i = Len(bins) - 1
           /\ HasEffFake => Len(efficiencies) = i /\ Len(fake_rate) = i
           /\ HasCc => Len(corr_class_prob) = i

\* a returned call with a bin of three zero denominators and another bin
\* whose three ratios are numbers
C5_Witness ==
    /\ fn = "calc_efficiencies" /\ pc = "done" /\ Len(efficiencies) = 2
    /\ \E k \in DOMAIN efficiencies :
        /\ EffDen(k - 1) = 0 /\ FakeDen(k - 1) = 0 /\ CcDen(k - 1) = 0
        /\ IsNaN(efficiencies[k]) /\ IsNaN(fake_rate[k]) /\ IsNaN(corr_class_prob[k])
    /\ \E k \in DOMAIN efficiencies :
        IsFinite(efficiencies[k]) /\ IsFinite(fake_rate[k]) /\ IsFinite(corr_class_prob[k])

(***************************************************************************)
(* C6: the fake rate of a bin is the number of rows passing the PID filter *)
(* (the predicted class is the selector; every row without a selector)     *)
(* whose predicted energy is in the bin and whose truth energy is NaN,     *)
(* divided by the number of rows passing the same filter whose predicted   *)
(* energy is in the bin.                                                   *)
(***************************************************************************)
C6_FakeRate ==
    (HasEffFake /\ Accepted) =>
        \A k \in DOMAIN fake_rate :
            fake_rate[k] = Frac(FakeNum(k - 1), FakeDen(k - 1))

\* with a selector: of two rows of the class in the bin, one has no truth
C6_Witness ==
    /\ fn = "calc_efficiencies" /\ pc = "done" /\ ~mask.isNone
    /\ \E k \in DOMAIN fake_rate :
        /\ FakeNum(k - 1) = 1 /\ FakeDen(k - 1) = 2
        /\ fake_rate[k] = Frac(1, 2)

(***************************************************************************)
(* C7: the classification probability of a bin is the number of rows with  *)
(* a valid prediction and a truth energy in the bin whose truth PID is in  *)
(* the selected category and whose predicted class is the selector,        *)
(* divided by the number of rows with a valid prediction and a truth       *)
(* energy in the bin whose truth PID is in the category; for the selectors *)
(* photon and neutral hadron calc_efficiencies and calc_classification_p   *)
(* return the same value.                                                  *)
(***************************************************************************)
C7_ClassificationProbability ==
    /\ (HasCc /\ Accepted /\ ~mask.isNone) =>
           \A k \in DOMAIN corr_class_prob :
               corr_class_prob[k] = Frac(CcNum(k - 1), CcDen(k - 1))
    /\ (fn = "calc_efficiencies" /\ Accepted /\ mask \in {Sel(0), Sel(1)}) =>
           \A k \in DOMAIN corr_class_prob :
               corr_class_prob[k] = CP_cc_prob(df, bins, mask, k - 1)
    /\ (fn = "calc_classification_p" /\ Accepted /\ mask \in {Sel(0), Sel(1)}) =>
           \A k \in DOMAIN corr_class_prob :
               corr_class_prob[k] = CE_cc_prob(df, bins, mask, k - 1)

\* of two matched rows of the category in a bin one is classified right
C7_Witness ==
    /\ fn = "calc_efficiencies" /\ pc = "done" /\ mask \in {Sel(0), Sel(1)}
    /\ \E k \in DOMAIN corr_class_prob :
        /\ CcNum(k - 1) = 1 /\ CcDen(k - 1) = 2
        /\ corr_class_prob[k] = Frac(1, 2)

(***************************************************************************)
(* C8 as stated: a selector outside {photon (0), neutral hadron (1),       *)
(* charged (2), all (None)} is rejected before any bin is computed, and    *)
(* every selector of that set is accepted by the binned-ratio routines.    *)
(***************************************************************************)
RecognizedSelectors == {None, Sel(0), Sel(1), Sel(2)}

C8_Original ==
    /\ (fn # "plot_efficency_and_fakerate" /\ pc # "call") =>
           (pc = "raised" <=> mask \notin RecognizedSelectors)
    /\ pc = "raised" =>
           /\ i = 0 /\ efficiencies = <<>> /\ fake_rate = <<>>
           /\ corr_class_prob = <<>>

(***************************************************************************)
(* C8 amended: a selector outside the set the called routine recognizes is *)
(* rejected with a ValueError before any bin is computed; calc_efficiencies*)
(* recognizes None (all), 0 (photon) and 1 (neutral hadron),               *)
(* calc_classification_p recognizes 0 (photon), 1 (neutral hadron) and 2   *)
(* (charged particles, leptons and charged hadrons together), and each     *)
(* routine accepts every selector it recognizes.                           *)
(***************************************************************************)
C8_SelectorCheck ==
    /\ (fn = "calc_efficiencies" /\ pc # "call") =>
           (pc = "raised" <=> mask \notin {None, Sel(0), Sel(1)})
    /\ (fn = "calc_classification_p" /\ pc # "call") =>
           (pc = "raised" <=> mask \notin {Sel(0), Sel(1), Sel(2)})
    /\ fn = "plot_efficency_and_fakerate" => pc # "raised"
    /\ pc = "raised" =>
           /\ i = 0 /\ efficiencies = <<>> /\ fake_rate = <<>>
           /\ corr_class_prob = <<>>
           /\ efficiencies_err = <<>> /\ fake_rate_err = <<>>
           /\ corr_class_prob_err = <<>>

\* calc_efficiencies has rejected the selector 2 before the first bin
C8_Witness ==
    /\ fn = "calc_efficiencies" /\ pc = "raised" /\ mask = Sel(2)
    /\ i = 0 /\ efficiencies = <<>>

(***************************************************************************)
(* C9 as stated: a bin partition with fewer than two boundaries, or with   *)
(* boundaries that are not strictly increasing, is rejected with an error  *)
(* before any ratio is computed or returned.                               *)
(***************************************************************************)
C9_Original ==
    ~StrictlyIncreasing(bins) =>
        /\ pc # "done"
        /\ efficiencies = <<>> /\ fake_rate = <<>> /\ corr_class_prob = <<>>

(***************************************************************************)
(* C10: for strictly increasing boundaries b_0 < ... < b_n the masks of    *)
(* the bins are the half-open intervals [b_i, b_{i+1}): a row is in at     *)
(* most one bin, it is in a bin iff its value v has b_0 <= v < b_n, and a  *)
(* row with v >= b_n, v < b_0 or v NaN is in no mask that a numerator or a *)
(* denominator counts.                                                     *)
(***************************************************************************)
TruthBinsOf(r) == {k \in 0..(Len(bins) - 2) : mask_bintruth(df, bins, k)[r]}

PredBinsOf(r) == {k \in 0..(Len(bins) - 2) : mask_binpred(df, bins, k)[r]}

C10_HalfOpenBins ==
    StrictlyIncreasing(bins) =>
        \A r \in DOMAIN df :
            LET tv == df[r].truthHitAssignedEnergies
                pv == df[r].pred_energy
                b0 == bins[1]
                bn == bins[Len(bins)]
            IN  /\ Cardinality(TruthBinsOf(r)) <= 1
                /\ Cardinality(PredBinsOf(r)) <= 1
                /\ TruthBinsOf(r) # {} <=> Within(tv, b0, bn)
                /\ PredBinsOf(r) # {} <=> Within(pv, b0, bn)
                /\ \A k \in TruthBinsOf(r) : Within(tv, bins[k + 1], bins[k + 2])
                /\ \A k \in PredBinsOf(r) : Within(pv, bins[k + 1], bins[k + 2])
                /\ ~Within(tv, b0, bn) =>
                       \A k \in 0..(Len(bins) - 2) : ~matched(df, bins, k)[r]
                /\ ~Within(pv, b0, bn) =>
                       \A k \in 0..(Len(bins) - 2) : ~faked(df, bins, k)[r]

\* a returned call over two bins with a row on the inner boundary, a row on
\* the last boundary and a row whose predicted energy is NaN
C10_Witness ==
    /\ pc = "done" /\ StrictlyIncreasing(bins) /\ Len(bins) = 3
    /\ \E r \in DOMAIN df :
        df[r].truthHitAssignedEnergies = Float(bins[2]) /\ TruthBinsOf(r) = {1}
    /\ \E r \in DOMAIN df :
        /\ df[r].truthHitAssignedEnergies = Float(bins[3]) /\ TruthBinsOf(r) = {}
        /\ IsNaN(df[r].pred_energy) /\ PredBinsOf(r) = {}

(***************************************************************************)
(* calc_deltaphi: the azimuthal residual                                   *)
(***************************************************************************)
\* An angle is kept exactly as mrad/1000 + halfpi * (pi/2) radians, so that
\* 3.0, pi and 6.0 - 2*pi are all exact values.
Ang(m, h) == [mrad |-> m, halfpi |-> h]

AngSub(x, y) == Ang(x.mrad - y.mrad, x.halfpi - y.halfpi)

AngAdd(x, y) == Ang(x.mrad + y.mrad, x.halfpi + y.halfpi)

\* np.pi and 2*np.pi
Pi == Ang(0, 2)

TwoPi == Ang(0, 4)

MinusPi == Ang(0, -2)

\* The sign of an angle.  2 * 10^6 times its value is
\* 2000 * mrad + halfpi * (10^6 * pi), and 3141592 < 10^6 * pi < 3141593.
AngSign(x) ==
    LET a  == 2000 * x.mrad + x.halfpi * 3141592
        b  == 2000 * x.mrad + x.halfpi * 3141593
        lo == IF a < b THEN a ELSE b
        hi == IF a < b THEN b ELSE a
    IN  CASE x.halfpi = 0 -> Sign(x.mrad)
          [] x.halfpi # 0 /\ lo >= 0 -> 1
          [] x.halfpi # 0 /\ hi <= 0 -> -1

AngGt(x, y) == AngSign(AngSub(x, y)) = 1

AngLt(x, y) == AngSign(AngSub(x, y)) = -1

\* faulty variant: the first wrap also takes a difference of exactly pi
WrapDown1_Closed(d) == IF ~AngLt(d, Pi) THEN AngSub(d, TwoPi) ELSE d

\* faulty variant: the first wrap is left out
WrapDown1_Skipped(d) == d

\* faulty variant: the second wrap subtracts 2*pi as the first one does
WrapUp1_Subtracts(d) == IF AngLt(d, MinusPi) THEN AngSub(d, TwoPi) ELSE d

\* np.where(delta_phi > np.pi, delta_phi-2*np.pi, delta_phi), one element
WrapDown1(d) == IF AngGt(d, Pi) THEN AngSub(d, TwoPi) ELSE d

\* np.where(delta_phi < -np.pi, delta_phi+2*np.pi, delta_phi), one element
WrapUp1(d) == IF AngLt(d, MinusPi) THEN AngAdd(d, TwoPi) ELSE d

\* the three statements of calc_deltaphi on arrays
DP_Subtract(t, p) == [k \in DOMAIN t |-> AngSub(t[k], p[k])]

DP_WrapDown(d) == [k \in DOMAIN d |-> WrapDown1(d[k])]

DP_WrapUp(d) == [k \in DOMAIN d |-> WrapUp1(d[k])]

\* the value calc_deltaphi returns for one pair of angles
CalcDeltaPhi1(t, p) == WrapUp1(WrapDown1(AngSub(t, p)))

\* Angles in [-pi, pi), the range of the azimuth columns, and the same
\* directions given one turn further.
PrincipalPhis == {Ang(0, -2), Ang(-3000, 0), Ang(0, 0), Ang(3000, 0)}

Principal(x) == x \in PrincipalPhis

ShiftedPhis == {AngAdd(x, TwoPi) : x \in PrincipalPhis}

\* a pair is two principal angles, or one of them is shifted by 2*pi
PhiPairs ==
    (PrincipalPhis \X PrincipalPhis) \cup (ShiftedPhis \X PrincipalPhis)
        \cup (PrincipalPhis \X ShiftedPhis)

MaxPhiLen == 2

PhiPairArrays == UNION {[1..n -> PhiPairs] : n \in 1..MaxPhiLen}

DeltaPhiCall ==
    /\ phi_pc = "call"
    /\ phi_pc' = "line546"
    /\ delta_phi' = DP_Subtract(t_phi, pred_phi)
    /\ UNCHANGED <<t_phi, pred_phi, ratioVars, jetVars, distVars, anVars>>

DeltaPhiWrapDown ==
    /\ phi_pc = "line546"
    /\ phi_pc' = "line547"
    /\ delta_phi' = DP_WrapDown(delta_phi)
    /\ UNCHANGED <<t_phi, pred_phi, ratioVars, jetVars, distVars, anVars>>

DeltaPhiWrapUp ==
    /\ phi_pc = "line547"
    /\ phi_pc' = "line548"
    /\ delta_phi' = DP_WrapUp(delta_phi)
    /\ UNCHANGED <<t_phi, pred_phi, ratioVars, jetVars, distVars, anVars>>

DeltaPhiReturn ==
    /\ phi_pc = "line548"
    /\ phi_pc' = "done"
    /\ UNCHANGED <<t_phi, pred_phi, delta_phi, ratioVars, jetVars, distVars, anVars>>

\* no call of a binned-ratio routine is under way
RatioIdle ==
    /\ fn = "none" /\ df = <<>> /\ bins = <<>> /\ mask = None
    /\ pc = "idle" /\ i = 0
    /\ efficiencies = <<>> /\ efficiencies_err = <<>>
    /\ fake_rate = <<>> /\ fake_rate_err = <<>>
    /\ corr_class_prob = <<>> /\ corr_class_prob_err = <<>>

InitPhi ==
    /\ RatioIdle
    /\ JetIdle
    /\ DistIdle
    /\ AnIdle
    /\ \E a \in PhiPairArrays :
          /\ t_phi = [k \in DOMAIN a |-> a[k][1]]
          /\ pred_phi = [k \in DOMAIN a |-> a[k][2]]
    /\ phi_pc = "call"
    /\ delta_phi = <<>>

NextPhi ==
    \/ DeltaPhiCall
    \/ DeltaPhiWrapDown
    \/ DeltaPhiWrapUp
    \/ DeltaPhiReturn

SpecPhi == InitPhi /\ [][NextPhi]_vars

(***************************************************************************)
(* Claims about calc_deltaphi                                              *)
(***************************************************************************)
PhiReturned == phi_pc = "done"

PhiIndices == DOMAIN t_phi

\* both angles of element k lie in [-pi, pi)
PrincipalPair(k) == Principal(t_phi[k]) /\ Principal(pred_phi[k])

\* x <= y on angles
AngLe(x, y) == ~AngGt(x, y)

\* C11 as stated: for inputs in [-pi, pi) the returned residual lies in the
\* half-open interval (-pi, pi].
C11_Original ==
    PhiReturned =>
        \A k \in PhiIndices :
            PrincipalPair(k) =>
                AngGt(delta_phi[k], MinusPi) /\ AngLe(delta_phi[k], Pi)

\* C11 (amended): for inputs in [-pi, pi) the returned residual lies in the
\* closed interval [-pi, pi]; a raw difference of exactly -pi is returned
\* as -pi.
C11_ResidualRange ==
    PhiReturned =>
        \A k \in PhiIndices :
            PrincipalPair(k) =>
                /\ AngLe(MinusPi, delta_phi[k]) /\ AngLe(delta_phi[k], Pi)
                /\ AngSub(t_phi[k], pred_phi[k]) = MinusPi
                       => delta_phi[k] = MinusPi

C11_Witness ==
    /\ PhiReturned
    /\ \A k \in PhiIndices : PrincipalPair(k)
    /\ \E k \in PhiIndices :
          /\ AngSub(t_phi[k], pred_phi[k]) = MinusPi
          /\ delta_phi[k] = MinusPi
    /\ \E k \in PhiIndices :
          /\ AngLt(AngSub(t_phi[k], pred_phi[k]), MinusPi)
          /\ delta_phi[k] = AngAdd(AngSub(t_phi[k], pred_phi[k]), TwoPi)

\* element k has the truth, or the predicted, angle given one turn further
TruthShifted(k) == t_phi[k] \in ShiftedPhis /\ Principal(pred_phi[k])

PredShifted(k) == Principal(t_phi[k]) /\ pred_phi[k] \in ShiftedPhis

\* the residual of the same pair of directions before 2*pi was added
Unshifted(k) ==
    IF TruthShifted(k) THEN CalcDeltaPhi1(AngSub(t_phi[k], TwoPi), pred_phi[k])
    ELSE CalcDeltaPhi1(t_phi[k], AngSub(pred_phi[k], TwoPi))

\* the raw difference of the same pair before 2*pi was added
UnshiftedDiff(k) ==
    IF TruthShifted(k) THEN AngSub(AngSub(t_phi[k], TwoPi), pred_phi[k])
    ELSE AngSub(t_phi[k], AngSub(pred_phi[k], TwoPi))

\* C12 as stated: adding 2*pi to either input leaves the residual unchanged.
C12_Original ==
    PhiReturned =>
        \A k \in PhiIndices :
            (TruthShifted(k) \/ PredShifted(k)) => delta_phi[k] = Unshifted(k)

\* C12 (amended): with d the raw difference of two angles in [-pi, pi),
\* adding 2*pi to the truth angle leaves the residual unchanged when
\* d <= pi and d # -pi and raises it by 2*pi otherwise; adding 2*pi to the
\* predicted angle leaves it unchanged when d >= -pi and d # pi and lowers
\* it by 2*pi otherwise.
C12_ShiftByTwoPi ==
    PhiReturned =>
        \A k \in PhiIndices :
            LET d == UnshiftedDiff(k)
            IN  /\ TruthShifted(k) =>
                       IF AngLe(d, Pi) /\ d # MinusPi
                       THEN delta_phi[k] = Unshifted(k)
                       ELSE delta_phi[k] = AngAdd(Unshifted(k), TwoPi)
                /\ PredShifted(k) =>
                       IF AngLe(MinusPi, d) /\ d # Pi
                       THEN delta_phi[k] = Unshifted(k)
                       ELSE delta_phi[k] = AngSub(Unshifted(k), TwoPi)

C12_Witness ==
    /\ PhiReturned
    /\ \E k \in PhiIndices :
          TruthShifted(k) /\ delta_phi[k] = AngAdd(Unshifted(k), TwoPi)
    /\ \E k \in PhiIndices :
          PredShifted(k) /\ delta_phi[k] = Unshifted(k)

\* C13: the residual is d = truth - predicted, replaced by d - 2*pi where
\* d > pi and then by d + 2*pi where d < -pi, element by element; for
\* truth 3.0 and predicted -3.0 it is 6.0 - 2*pi, about -0.283.
C13_DeltaPhiDefinition ==
    PhiReturned =>
        /\ DOMAIN delta_phi = PhiIndices
        /\ \A k \in PhiIndices :
              LET d == AngSub(t_phi[k], pred_phi[k])
              IN  /\ AngGt(d, Pi) => delta_phi[k] = AngSub(d, TwoPi)
                  /\ AngLt(d, MinusPi) => delta_phi[k] = AngAdd(d, TwoPi)
                  /\ ~AngGt(d, Pi) /\ ~AngLt(d, MinusPi) => delta_phi[k] = d
                  /\ t_phi[k] = Ang(3000, 0) /\ pred_phi[k] = Ang(-3000, 0) =>
                         /\ delta_phi[k] = Ang(6000, -4)
                         /\ AngGt(delta_phi[k], Ang(-284, 0))
                         /\ AngLt(delta_phi[k], Ang(-283, 0))

C13_Witness ==
    /\ PhiReturned
    /\ Len(t_phi) = 2
    /\ t_phi[1] = Ang(3000, 0) /\ pred_phi[1] = Ang(-3000, 0)
    /\ delta_phi[1] = Ang(6000, -4)
    /\ delta_phi[2] = AngSub(t_phi[2], pred_phi[2])
    /\ delta_phi[2] # Ang(0, 0)

(***************************************************************************)
(* correct_jet_pt and plot_jet_metrics_from_jets                           *)
(***************************************************************************)
\* x + y on floats
FAdd(x, y) ==
    IF ~IsFinite(x) \/ ~IsFinite(y) THEN NaN
    ELSE Frac(x.num * y.den + y.num * x.den, x.den * y.den)

\* the azimuth of a jet that does not exist (NaN in the column)
NoPhi == [missing |-> TRUE]

\* The jets of the tables: a matched jet has both halves, a missed jet has
\* no predicted half.  Transverse momenta of truth jets are positive.
JetKind(m, tpt, ppt, teta, peta, tphi, pphi, tn, pn) ==
    [matched |-> m, true_pt |-> tpt, pred_pt |-> ppt,
     true_eta |-> teta, pred_eta |-> peta,
     true_phi |-> tphi, pred_phi |-> pphi,
     true_n_constituents |-> tn, pred_n_constituents |-> pn]

JetKinds ==
    { \* predicted as it is: relative residual 0
      JetKind(TRUE, Float(10), Float(10), Float(1), Float(1),
              Ang(3000, 0), Ang(-3000, 0), Float(3), Float(3)),
      \* predicted too low: relative residual 1/5
      JetKind(TRUE, Float(10), Float(8), Float(1), Frac(1, 2),
              Ang(0, 0), Ang(-3000, 0), Float(3), Float(2)),
      \* predicted twice too high: relative residual -1
      JetKind(TRUE, Float(10), Float(20), Float(-1), Float(0),
              Ang(-3000, 0), Ang(3000, 0), Float(4), Float(5)),
      \* on a bin boundary, predicted too low: relative residual 1/5
      JetKind(TRUE, Float(5), Float(4), Float(0), Float(0),
              Ang(0, -2), Ang(0, 0), Float(1), Float(1)),
      \* missed: no predicted jet
      JetKind(FALSE, Float(12), NaN, Float(0), NaN,
              Ang(0, 0), NoPhi, Float(2), NaN),
      \* above the last bin boundary
      JetKind(TRUE, Float(2000), Float(1500), Float(2), Float(2),
              Ang(3000, 0), Ang(3000, 0), Float(9), Float(8)) }

\* event ids that are consecutive from 0, and ids that are not
EventIds == {0, 1, 2}

JetRow(e, k) ==
    [event_id |-> e, matched |-> k.matched,
     true_pt |-> k.true_pt, pred_pt |-> k.pred_pt,
     true_eta |-> k.true_eta, pred_eta |-> k.pred_eta,
     true_phi |-> k.true_phi, pred_phi |-> k.pred_phi,
     true_n_constituents |-> k.true_n_constituents,
     pred_n_constituents |-> k.pred_n_constituents]

JetRows == {JetRow(e, k) : e \in EventIds, k \in JetKinds}

MaxJets == 2

JetTables == UNION {[1..n -> JetRows] : n \in 0..MaxJets}

\* the bins plot_jet_metrics_from_jets passes to correct_jet_pt
CalibrationBins == <<0, 5, 10, 20, 30, 50, 100, 1000>>

\* the bins of a direct call of correct_jet_pt
JetBinLists == {<<0, 5, 10, 20>>}

JetRoutines == {"correct_jet_pt", "plot_jet_metrics_from_jets"}

\* the calls of correct_jet_pt made on one table
MaxCalls == 2

\* faulty variant: corrected_jets_df is a copy of the argument
Alias_Copy(h, ref) == [heap |-> Append(h, h[ref]), ref |-> Len(h) + 1]

\* corrected_jets_df = jets_df: a second name for the same object
Alias(h, ref) == [heap |-> h, ref |-> ref]

\* faulty variant: the bin loop stops one bin early
CJ_range_OneShort(b) == Len(b) - 2

\* range(len(bins) - 1): the loop variable runs over 0 .. CJ_range(b) - 1
CJ_range(b) == Len(b) - 1

\* faulty variant: the upper boundary belongs to the bin
CJ_mask_bintruth_Closed(t, b, k) ==
    [r \in DOMAIN t |->
        /\ FGe(t[r].true_pt, Float(b[k + 1]))
        /\ ~FLt(Float(b[k + 2]), t[r].true_pt)
        /\ ~IsNaN(t[r].true_pt)]

\* the masks of iteration k of the bin loop (bins[i] is b[k + 1])
CJ_mask_bintruth(t, b, k) ==
    [r \in DOMAIN t |->
        /\ FGe(t[r].true_pt, Float(b[k + 1]))
        /\ FLt(t[r].true_pt, Float(b[k + 2]))]

CJ_matched(t, b, k) ==
    [r \in DOMAIN t |-> t[r].matched /\ CJ_mask_bintruth(t, b, k)[r]]

\* mask = np.logical_and(jets_df['event_id'] == j, matched)
CJ_mask(t, b, k, j) ==
    [r \in DOMAIN t |-> t[r].event_id = j /\ CJ_matched(t, b, k)[r]]

\* df[mask]: the rows the mask selects, in the order of the table
Masked(t, m) ==
    LET idx == SelectSeq([r \in 1..Len(t) |-> r], LAMBDA r : m[r])
    IN  [x \in 1..Len(idx) |-> t[idx[x]]]

\* len(jets_df['event_id'].unique())
NumEvents(t) == Cardinality({t[r].event_id : r \in DOMAIN t})

\* (jet_pt_truth-jet_pt_pred)/jet_pt_truth
RelResPt(rows) ==
    [x \in DOMAIN rows |->
        FDiv(FSub(rows[x].true_pt, rows[x].pred_pt), rows[x].true_pt)]

\* the list relrespt when the event loop of a bin has ended
CJ_relrespt(t, b, k) ==
    [j \in 1..NumEvents(t) |-> RelResPt(Masked(t, CJ_mask(t, b, k, j - 1)))]

\* np.concatenate of a non-empty list of arrays
RECURSIVE Concatenate(_)
Concatenate(list) ==
    IF Len(list) = 0 THEN <<>> ELSE Head(list) \o Concatenate(Tail(list))

RECURSIVE FSum(_)
FSum(a) == IF Len(a) = 0 THEN Float(0) ELSE FAdd(Head(a), FSum(Tail(a)))

\* np.mean: NaN for an empty array (RuntimeWarning)
Mean(a) == IF Len(a) = 0 THEN NaN ELSE FDiv(FSum(a), Float(Len(a)))

CJ_corr_factor(t, b, k) == Mean(Concatenate(CJ_relrespt(t, b, k)))

\* corrected_jets_df.loc[mask_bintruth, 'pred_pt'] *= (1+corr_factor), the
\* mask taken from the table src and the values from the table dst
CJ_rescale(src, dst, b, k, c) ==
    [r \in DOMAIN dst |->
        IF CJ_mask_bintruth(src, b, k)[r]
        THEN [dst[r] EXCEPT !.pred_pt = FMul(@, FAdd(Float(1), c))]
        ELSE dst[r]]

\* the call of correct_jet_pt(jets_df, b) up to the head of its bin loop
CJ_Enter(b) ==
    /\ LET a == Alias(heap, jets_df)
       IN  heap' = a.heap /\ corrected_jets_df' = a.ref
    /\ jbins' = b
    /\ ji' = 0
    /\ correction_factors' = Append(correction_factors, <<>>)
    /\ jets_before' = Append(jets_before, heap[jets_df])
    /\ jpc' = "bins"

CorrectJetPtCall ==
    /\ jfn = "correct_jet_pt" /\ jpc = "call"
    /\ CJ_Enter(jbins)
    /\ UNCHANGED <<jfn, jets_df, jets_after, ei, lists, ratioVars, phiVars,
                   distVars, anVars>>

\* one iteration of the bin loop, its event loop included
CorrectJetPtBin ==
    /\ jpc = "bins" /\ ji < CJ_range(jbins)
    /\ LET t == heap[jets_df]
       IN  IF NumEvents(t) = 0
           THEN \* np.concatenate([]) raises ValueError
                /\ jpc' = "raised"
                /\ UNCHANGED <<heap, correction_factors, ji>>
           ELSE LET c == CJ_corr_factor(t, jbins, ji)
                IN  /\ heap' = [heap EXCEPT ![corrected_jets_df] =
                                    CJ_rescale(t, @, jbins, ji, c)]
                    /\ correction_factors' =
                           [correction_factors EXCEPT
                               ![Len(correction_factors)] = Append(@, c)]
                    /\ ji' = ji + 1
                    /\ jpc' = jpc
    /\ UNCHANGED <<jfn, jets_df, corrected_jets_df, jbins, jets_before,
                   jets_after, ei, lists, ratioVars, phiVars,
                   distVars, anVars>>

\* return corrected_jets_df; in plot_jet_metrics_from_jets the result is
\* bound to the name jets_df and the event loop begins
CorrectJetPtReturn ==
    /\ jpc = "bins" /\ ji >= CJ_range(jbins)
    /\ jets_after' = Append(jets_after, heap[corrected_jets_df])
    /\ IF jfn = "correct_jet_pt"
       THEN jpc' = "returned" /\ UNCHANGED <<jets_df, ei>>
       ELSE jpc' = "events" /\ jets_df' = corrected_jets_df /\ ei' = 0
    /\ UNCHANGED <<jfn, heap, corrected_jets_df, jbins, ji,
                   correction_factors, jets_before, lists, ratioVars, phiVars,
                   distVars, anVars>>

\* correct_jet_pt is called once more on the same table
CorrectJetPtAgain ==
    /\ jfn = "correct_jet_pt" /\ jpc = "returned"
    /\ Len(jets_after) < MaxCalls
    /\ jpc' = "call"
    /\ UNCHANGED <<jfn, heap, jets_df, corrected_jets_df, jbins, ji,
                   correction_factors, jets_before, jets_after, ei, lists,
                   ratioVars, phiVars,
                   distVars, anVars>>

PlotJetMetricsCall ==
    /\ jfn = "plot_jet_metrics_from_jets" /\ jpc = "call"
    /\ lists' = EmptyLists
    /\ CJ_Enter(CalibrationBins)
    /\ UNCHANGED <<jfn, jets_df, jets_after, ei, ratioVars, phiVars,
                   distVars, anVars>>

\* mask = np.logical_and(jets_df['event_id'] == i, jets_df['matched'])
PJ_mask(t, e) == [r \in DOMAIN t |-> t[r].event_id = e /\ t[r].matched]

\* calc_deltaphi on the phi columns of the selected rows
PJ_delta_phi(rows) ==
    DP_WrapUp(DP_WrapDown(DP_Subtract([x \in DOMAIN rows |-> rows[x].true_phi],
                                      [x \in DOMAIN rows |-> rows[x].pred_phi])))

\* one iteration of the event loop: a segment is appended to each list
PlotJetMetricsEvent ==
    /\ jfn = "plot_jet_metrics_from_jets" /\ jpc = "events"
    /\ ei < NumEvents(heap[jets_df])
    /\ LET rows == Masked(heap[jets_df], PJ_mask(heap[jets_df], ei))
       IN  lists' =
             [nParicles_truth |->
                  Append(lists.nParicles_truth,
                         [x \in DOMAIN rows |-> rows[x].true_n_constituents]),
              nParicles_pred |->
                  Append(lists.nParicles_pred,
                         [x \in DOMAIN rows |-> rows[x].pred_n_constituents]),
              reseta |->
                  Append(lists.reseta,
                         [x \in DOMAIN rows |->
                             FSub(rows[x].true_eta, rows[x].pred_eta)]),
              resphi |-> Append(lists.resphi, PJ_delta_phi(rows)),
              relrespt |-> Append(lists.relrespt, RelResPt(rows))]
    /\ ei' = ei + 1
    /\ UNCHANGED <<jfn, jpc, heap, jets_df, corrected_jets_df, jbins, ji,
                   correction_factors, jets_before, jets_after,
                   ratioVars, phiVars,
                   distVars, anVars>>

\* the five np.concatenate calls after the event loop
PlotJetMetricsConcatenate ==
    /\ jfn = "plot_jet_metrics_from_jets" /\ jpc = "events"
    /\ ei >= NumEvents(heap[jets_df])
    /\ IF Len(lists.nParicles_truth) = 0
       THEN jpc' = "raised" /\ UNCHANGED lists
       ELSE /\ jpc' = "done"
            /\ lists' =
                 [nParicles_truth |-> Concatenate(lists.nParicles_truth),
                  nParicles_pred |-> Concatenate(lists.nParicles_pred),
                  reseta |-> Concatenate(lists.reseta),
                  resphi |-> Concatenate(lists.resphi),
                  relrespt |-> Concatenate(lists.relrespt)]
    /\ UNCHANGED <<jfn, heap, jets_df, corrected_jets_df, jbins, ji, ei,
                   correction_factors, jets_before, jets_after,
                   ratioVars, phiVars,
                   distVars, anVars>>

InitJet ==
    /\ RatioIdle
    /\ PhiIdle
    /\ DistIdle
    /\ AnIdle
    /\ jfn \in JetRoutines
    /\ jpc = "call"
    /\ \E t \in JetTables : heap = <<t>>
    /\ jets_df = 1
    /\ corrected_jets_df = 0
    /\ jbins \in (IF jfn = "correct_jet_pt" THEN JetBinLists ELSE {<<>>})
    /\ ji = 0
    /\ ei = 0
    /\ correction_factors = <<>>
    /\ jets_before = <<>>
    /\ jets_after = <<>>
    /\ lists = EmptyLists

NextJet ==
    \/ CorrectJetPtCall
    \/ CorrectJetPtBin
    \/ CorrectJetPtReturn
    \/ CorrectJetPtAgain
    \/ PlotJetMetricsCall
    \/ PlotJetMetricsEvent
    \/ PlotJetMetricsConcatenate

SpecJet == InitJet /\ [][NextJet]_vars

JetTypeOK == jpc \in {"call", "bins", "returned", "events", "done", "raised"}

(***************************************************************************)
(* Claims about the jets routines                                          *)
(***************************************************************************)
\* the ids of a table in ascending order
RECURSIVE Ascending(_)
Ascending(S) ==
    IF S = {} THEN <<>>
    ELSE LET m == CHOOSE x \in S : \A y \in S : x <= y
         IN  <<m>> \o Ascending(S \ {m})

EventIdsOf(t) == {t[r].event_id : r \in DOMAIN t}

\* the matched rows of a table, event by event in ascending id order
MatchedByEvent(t) ==
    LET ids == Ascending(EventIdsOf(t))
    IN  Concatenate([x \in 1..Len(ids) |->
            SelectSeq(t, LAMBDA r : r.event_id = ids[x] /\ r.matched)])

MatchedCount(t) == Cardinality({r \in DOMAIN t : t[r].matched})

RelativeResidual(r) == FDiv(FSub(r.true_pt, r.pred_pt), r.true_pt)

PlotJetMetricsDone == jfn = "plot_jet_metrics_from_jets" /\ jpc = "done"

\* C14: whatever event ids the table holds, the flat residual collection
\* of plot_jet_metrics_from_jets has exactly one entry per matched row, the
\* events in ascending id order.
C14_Original ==
    PlotJetMetricsDone =>
        LET t == heap[jets_df]
            rows == MatchedByEvent(t)
        IN  /\ Len(lists.relrespt) = MatchedCount(t)
            /\ lists.relrespt =
                   [x \in 1..Len(rows) |-> RelativeResidual(rows[x])]
            /\ lists.reseta =
                   [x \in 1..Len(rows) |->
                       FSub(rows[x].true_eta, rows[x].pred_eta)]

\* the bins of the current call, numbered as the loop variable numbers them
JetBinIndices == 0..(Len(jbins) - 2)

InJetBin(r, k) ==
    /\ FGe(r.true_pt, Float(jbins[k + 1]))
    /\ FLt(r.true_pt, Float(jbins[k + 2]))

InNoJetBin(r) == \A k \in JetBinIndices : ~InJetBin(r, k)

\* the matched jets of table t whose true_pt is in bin k
MatchedInBin(t, k) == SelectSeq(t, LAMBDA r : r.matched /\ InJetBin(r, k))

\* the mean relative residual of the matched jets of bin k
MeanResidual(t, k) ==
    LET rows == MatchedInBin(t, k)
    IN  Mean([x \in 1..Len(rows) |-> RelativeResidual(rows[x])])

FirstCallReturned == Len(jets_after) >= 1

\* C15: the correction of a bin is the mean relative residual of the
\* matched jets of the bin; pred_pt is multiplied by 1 + correction in
\* exactly the rows of the bin, and rows in no bin keep their pred_pt.
C15_Original ==
    FirstCallReturned =>
        LET t0 == jets_before[1]
            t1 == jets_after[1]
        IN  /\ \A k \in JetBinIndices :
                  /\ correction_factors[1][k + 1] = MeanResidual(t0, k)
                  /\ \A r \in DOMAIN t0 :
                        InJetBin(t0[r], k) =>
                            t1[r].pred_pt =
                                FMul(t0[r].pred_pt,
                                     FAdd(Float(1), MeanResidual(t0, k)))
            /\ \A r \in DOMAIN t0 :
                  InNoJetBin(t0[r]) => t1[r].pred_pt = t0[r].pred_pt

\* one iteration of the bin loop as a function of the table
CorrectBin(t, b, k) == CJ_rescale(t, t, b, k, CJ_corr_factor(t, b, k))

\* the bins of b processed in the given order
RECURSIVE ApplyInOrder(_, _, _)
ApplyInOrder(t, b, order) ==
    IF Len(order) = 0 THEN t
    ELSE ApplyInOrder(CorrectBin(t, b, Head(order)), b, Tail(order))

\* every order in which the bins of b can be processed
BinOrders(b) ==
    LET n == Len(b) - 1
    IN  {o \in [1..n -> 0..(n - 1)] : \A x, y \in 1..n : x # y => o[x] # o[y]}

DirectCall == jfn = "correct_jet_pt"

\* C16: with strictly increasing bins, while the bin loop runs the rows of
\* every bin not yet processed hold their pred_pt of before the call, every
\* correction equals the one computed from the table of before the call,
\* and the returned table is the same for every processing order.
C16_OrderIndependent ==
    StrictlyIncreasing(jbins) =>
        /\ jpc = "bins" =>
              LET t0 == jets_before[Len(jets_before)]
                  t  == heap[jets_df]
              IN  /\ \A r \in DOMAIN t : \A k \in JetBinIndices :
                        k >= ji /\ InJetBin(t[r], k) =>
                            t[r].pred_pt = t0[r].pred_pt
                  /\ \A k \in JetBinIndices :
                        k < ji =>
                            correction_factors[Len(correction_factors)][k + 1]
                                = CJ_corr_factor(t0, jbins, k)
        /\ DirectCall =>
              \A c \in 1..Len(jets_after) : \A o \in BinOrders(jbins) :
                  jets_after[c] = ApplyInOrder(jets_before[c], jbins, o)

C16_Witness ==
    /\ DirectCall /\ jpc = "returned"
    /\ StrictlyIncreasing(jbins)
    /\ \E k, l \in JetBinIndices :
          /\ k # l
          /\ IsFinite(correction_factors[1][k + 1])
          /\ IsFinite(correction_factors[1][l + 1])
          /\ correction_factors[1][k + 1] # Float(0)
          /\ correction_factors[1][l + 1] # Float(0)
    /\ \A r \in DOMAIN jets_after[1] :
          jets_after[1][r].pred_pt # jets_before[1][r].pred_pt

\* C17: if true_pt = pred_pt for all matched jets of a bin, the correction
\* of the bin is 0 and pred_pt of every row of the bin is unchanged.
C17_Original ==
    FirstCallReturned =>
        LET t0 == jets_before[1]
            t1 == jets_after[1]
        IN  \A k \in JetBinIndices :
                (\A r \in DOMAIN t0 :
                     t0[r].matched /\ InJetBin(t0[r], k) =>
                         t0[r].true_pt = t0[r].pred_pt)
                =>  /\ correction_factors[1][k + 1] = Float(0)
                    /\ \A r \in DOMAIN t0 :
                          InJetBin(t0[r], k) => t1[r].pred_pt = t0[r].pred_pt

\* C18: if some bin has a nonzero mean relative residual before the first
\* call, the table after the second call differs in pred_pt from the
\* table after the first call.
C18_Original ==
    Len(jets_after) >= 2 =>
        ((\E k \in JetBinIndices :
              /\ IsFinite(MeanResidual(jets_before[1], k))
              /\ MeanResidual(jets_before[1], k) # Float(0))
         => \E r \in DOMAIN jets_after[1] :
               jets_after[2][r].pred_pt # jets_after[1][r].pred_pt)

\* the table after all bins of CalibrationBins were processed in order
FullyCalibrated(t) ==
    ApplyInOrder(t, CalibrationBins,
                 [x \in 1..(Len(CalibrationBins) - 1) |-> x - 1])

ResidualsStarted == jpc \in {"events", "done"}

\* C19: in plot_jet_metrics_from_jets correct_jet_pt has run exactly once
\* and over all bins before the first residual is computed, the residuals
\* are read from the fully calibrated table, and correct_jet_pt is never
\* run a second time.
C19_CalibratedBeforeResiduals ==
    jfn = "plot_jet_metrics_from_jets" =>
        /\ Len(jets_after) <= 1
        /\ ~ResidualsStarted => lists = EmptyLists
        /\ ResidualsStarted =>
              /\ Len(jets_after) = 1
              /\ Len(correction_factors) = 1
              /\ Len(correction_factors[1]) = Len(CalibrationBins) - 1
              /\ heap[jets_df] = jets_after[1]
              /\ jets_after[1] = FullyCalibrated(jets_before[1])
        /\ PlotJetMetricsDone =>
              LET rows == Concatenate(
                      [e \in 1..NumEvents(heap[jets_df]) |->
                          Masked(FullyCalibrated(jets_before[1]),
                                 PJ_mask(jets_before[1], e - 1))])
              IN  lists.relrespt =
                      [x \in 1..Len(rows) |-> RelativeResidual(rows[x])]

C19_Witness ==
    /\ PlotJetMetricsDone
    /\ Len(lists.relrespt) = 2
    /\ \E x \in 1..2 :
          /\ IsFinite(lists.relrespt[x])
          /\ lists.relrespt[x] # Float(0)
    /\ jets_after[1] # jets_before[1]

\* C20: correct_jet_pt keeps the number and the order of the rows and
\* every column but pred_pt, while it runs and when it has returned; it
\* creates no other table: corrected_jets_df is the argument jets_df.
C20_OnlyPredPtChanges ==
    /\ \A c \in 1..Len(jets_after) :
          /\ Len(jets_after[c]) = Len(jets_before[c])
          /\ \A r \in DOMAIN jets_before[c] :
                [jets_after[c][r] EXCEPT !.pred_pt = jets_before[c][r].pred_pt]
                    = jets_before[c][r]
    /\ jpc \in {"bins", "returned", "events", "done"} =>
          /\ Len(heap) = 1
          /\ corrected_jets_df = jets_df
          /\ Len(heap[jets_df]) = Len(jets_before[1])
          /\ \A r \in DOMAIN jets_before[1] :
                [heap[jets_df][r] EXCEPT !.pred_pt = jets_before[1][r].pred_pt]
                    = jets_before[1][r]
    /\ jpc \in {"returned", "events", "done"} =>
          heap[jets_df] = jets_after[Len(jets_after)]

C20_Witness ==
    /\ DirectCall /\ jpc = "returned"
    /\ Len(jets_after) = 1
    /\ Len(heap[jets_df]) = 2
    /\ heap[jets_df][1].pred_pt # jets_before[1][1].pred_pt
    /\ heap[jets_df][2].pred_pt = jets_before[1][2].pred_pt
    /\ IsFinite(heap[jets_df][1].pred_pt)

(***************************************************************************)
(* Claims about the uncertainty of a ratio                                 *)
(***************************************************************************)
\* C26: in calc_efficiencies and plot_efficency_and_fakerate a bin whose
\* numerator count is 0 and whose denominator is positive has the ratio 0
\* and the uncertainty NaN; a bin whose ratio is exactly 1 has the
\* uncertainty 0.
C26_ZeroNumeratorUncertainty ==
    (HasEffFake /\ Accepted) =>
        /\ \A k \in DOMAIN efficiencies :
              /\ EffNum(k - 1) = 0 /\ EffDen(k - 1) > 0 =>
                    /\ efficiencies[k] = Float(0)
                    /\ efficiencies_err[k] = Sqrt(NaN)
              /\ EffNum(k - 1) = EffDen(k - 1) /\ EffDen(k - 1) > 0 =>
                    /\ efficiencies[k] = Float(1)
                    /\ efficiencies_err[k] = Sqrt(Float(0))
        /\ \A k \in DOMAIN fake_rate :
              /\ FakeNum(k - 1) = 0 /\ FakeDen(k - 1) > 0 =>
                    /\ fake_rate[k] = Float(0)
                    /\ fake_rate_err[k] = Sqrt(NaN)
              /\ FakeNum(k - 1) = FakeDen(k - 1) /\ FakeDen(k - 1) > 0 =>
                    /\ fake_rate[k] = Float(1)
                    /\ fake_rate_err[k] = Sqrt(Float(0))

\* a returned call with an efficiency 0 of uncertainty NaN and a fake rate 1
\* of uncertainty 0
C26_Witness ==
    /\ HasEffFake /\ pc = "done"
    /\ \E k \in DOMAIN efficiencies :
          /\ EffNum(k - 1) = 0 /\ EffDen(k - 1) > 0
          /\ efficiencies[k] = Float(0)
          /\ efficiencies_err[k] = Sqrt(NaN)
    /\ \E k \in DOMAIN fake_rate :
          /\ fake_rate[k] = Float(1)
          /\ fake_rate_err[k] = Sqrt(Float(0))

(***************************************************************************)
(* Claims about the residual that is left after correct_jet_pt             *)
(***************************************************************************)
\* every jet of the table has finite transverse momenta and true_pt # 0
FiniteJets(t) ==
    \A r \in DOMAIN t :
        /\ IsFinite(t[r].true_pt) /\ IsFinite(t[r].pred_pt)
        /\ t[r].true_pt # Float(0)

HasMatchedJet(t, k) == \E r \in DOMAIN t : t[r].matched /\ InJetBin(t[r], k)

\* C25: after one call on finite inputs, in every bin with a matched jet
\* and correction c the mean relative residual of the matched jets of the
\* bin is the number c * c (zero only if c is zero), and a second call
\* multiplies pred_pt of the rows of the bin by 1 + c * c.
C25_Original ==
    (FirstCallReturned /\ FiniteJets(jets_before[1])) =>
        \A k \in JetBinIndices :
            HasMatchedJet(jets_before[1], k) =>
                LET c == correction_factors[1][k + 1]
                    m == MeanResidual(jets_after[1], k)
                IN  /\ IsFinite(m)
                    /\ m = FMul(c, c)
                    /\ m = Float(0) => c = Float(0)
                    /\ Len(jets_after) >= 2 =>
                          \A r \in DOMAIN jets_after[1] :
                              InJetBin(jets_after[1][r], k) =>
                                  jets_after[2][r].pred_pt =
                                      FMul(jets_after[1][r].pred_pt,
                                           FAdd(Float(1), FMul(c, c)))

(***************************************************************************)
(* plot_distribution(truth_list, feature_list)                             *)
(***************************************************************************)
\* A hit is a row of the feature arrays and of the truth arrays of one
\* event: its track marker, the index of its truth particle and the PID.
Hit(id, idx, pid) ==
    [recHitID |-> id, truthHitAssignementIdx |-> idx,
     truthHitAssignedPIDs |-> pid]

HitKinds ==
    << Hit(0, 0, 22),       \* a calorimeter cell of a photon
       Hit(0, 1, 2112),     \* a calorimeter cell of a neutron
       Hit(1, 2, 211),      \* a track of a charged pion
       Hit(-1, 3, 11),      \* a track of an electron, negative marker
       Hit(2, 2, 211) >>    \* a track whose marker has magnitude 2

MaxHits == 2

\* the events of n hits; the counts do not depend on the order of the hits
EventsOf(n) ==
    {[x \in 1..n |-> HitKinds[f[x]]] :
        f \in {g \in [1..n -> DOMAIN HitKinds] :
                  \A x \in 1..n : x < n => g[x] <= g[x + 1]}}

Events == UNION {EventsOf(n) : n \in 0..MaxHits}

MaxEvents == 2

EventLists == UNION {[1..n -> Events] : n \in 0..MaxEvents}

\* the PID lists of the four isin masks
PD_charged_hd ==
    {211, -211, 321, -321, 2212, -2212, 3112, -3112, 3222, -3222, 3312, -3312}

PD_lepton == {11, -11, 13, -13}

PD_photon == {22}

PD_neutral == {130, 310, 311, 2112, -2112, 3122, -3122, 3322, -3322}

\* np.sum(np.abs(feature_list[i]['recHitID']))
RECURSIVE PD_n_tracks(_)
PD_n_tracks(ev) ==
    IF Len(ev) = 0 THEN 0 ELSE Abs(Head(ev).recHitID) + PD_n_tracks(Tail(ev))

\* len(feature_list[i]['recHitID'])-n_tracks[-1]
PD_n_hits(ev) == Len(ev) - PD_n_tracks(ev)

\* faulty variant: the rows are counted, not their distinct values
PD_nunique_Rows(vals) == Len(vals)

\* len(column.unique())
PD_nunique(vals) == Cardinality({vals[x] : x \in DOMAIN vals})

\* the column truthHitAssignementIdx of the selected rows
PD_idx(rows) == [x \in DOMAIN rows |-> rows[x].truthHitAssignementIdx]

PD_n_particles(ev) == PD_nunique(PD_idx(ev))

\* len(truth_df[mask]['truthHitAssignementIdx'].unique()), mask = isin(pids)
PD_n_category(ev, pids) ==
    PD_nunique(PD_idx(SelectSeq(ev, LAMBDA h : h.truthHitAssignedPIDs \in pids)))

\* one iteration of the event loop
PlotDistributionEvent ==
    /\ pd_pc = "loop" /\ pd_i < Len(event_list)
    /\ LET ev == event_list[pd_i + 1]
       IN  /\ n_tracks' = Append(n_tracks, PD_n_tracks(ev))
           /\ n_hits' = Append(n_hits, PD_n_hits(ev))
           /\ n_particles' = Append(n_particles, PD_n_particles(ev))
           /\ n_charged_had' = Append(n_charged_had, PD_n_category(ev, PD_charged_hd))
           /\ n_lepton' = Append(n_lepton, PD_n_category(ev, PD_lepton))
           /\ n_photon' = Append(n_photon, PD_n_category(ev, PD_photon))
           /\ n_neutral_had' = Append(n_neutral_had, PD_n_category(ev, PD_neutral))
    /\ pd_i' = pd_i + 1
    /\ UNCHANGED <<pd_pc, event_list, ratioVars, phiVars, jetVars, anVars>>

\* the loop has ended: the lists become arrays
PlotDistributionArrays ==
    /\ pd_pc = "loop" /\ pd_i >= Len(event_list)
    /\ pd_pc' = "done"
    /\ UNCHANGED <<event_list, pd_i, n_tracks, n_hits, n_particles,
                   n_charged_had, n_lepton, n_photon, n_neutral_had,
                   ratioVars, phiVars, jetVars, anVars>>

InitDist ==
    /\ RatioIdle
    /\ PhiIdle
    /\ JetIdle
    /\ AnIdle
    /\ pd_pc = "loop"
    /\ event_list \in EventLists
    /\ pd_i = 0
    /\ n_tracks = <<>> /\ n_hits = <<>> /\ n_particles = <<>>
    /\ n_charged_had = <<>> /\ n_lepton = <<>>
    /\ n_photon = <<>> /\ n_neutral_had = <<>>

NextDist ==
    \/ PlotDistributionEvent
    \/ PlotDistributionArrays

SpecDist == InitDist /\ [][NextDist]_vars

(***************************************************************************)
(* Claims about plot_distribution                                          *)
(***************************************************************************)
\* the rows of an event whose track marker is not zero
TrackRows(ev) == {x \in DOMAIN ev : ev[x].recHitID # 0}

\* C21: for every event the track count is the number of rows whose
\* recHitID is not zero, the hit count is the number of rows minus the
\* track count, and both lie in 0 .. number of rows.
C21_Original ==
    \A e \in DOMAIN n_tracks :
        LET ev == event_list[e]
        IN  /\ n_tracks[e] = Cardinality(TrackRows(ev))
            /\ n_hits[e] = Len(ev) - Cardinality(TrackRows(ev))
            /\ n_tracks[e] \in 0..Len(ev)
            /\ n_hits[e] \in 0..Len(ev)

\* the distinct truth-particle indices among the rows with a PID in pids
ParticlesOf(ev, pids) ==
    {ev[x].truthHitAssignementIdx :
        x \in {y \in DOMAIN ev : ev[y].truthHitAssignedPIDs \in pids}}

AllParticlesOf(ev) == {ev[x].truthHitAssignementIdx : x \in DOMAIN ev}

\* C22: for every event the particle count and the count of each category
\* is the number of distinct truthHitAssignementIdx values among the rows
\* of the event (of the category), and the event with any of its rows
\* duplicated has the same counts.
C22_DistinctParticles ==
    \A e \in DOMAIN n_particles :
        LET ev == event_list[e]
        IN  /\ n_particles[e] = Cardinality(AllParticlesOf(ev))
            /\ n_charged_had[e] = Cardinality(ParticlesOf(ev, PD_charged_hd))
            /\ n_lepton[e] = Cardinality(ParticlesOf(ev, PD_lepton))
            /\ n_photon[e] = Cardinality(ParticlesOf(ev, PD_photon))
            /\ n_neutral_had[e] = Cardinality(ParticlesOf(ev, PD_neutral))
            /\ \A x \in DOMAIN ev :
                  LET dup == Append(ev, ev[x])
                  IN  /\ PD_n_particles(dup) = n_particles[e]
                      /\ PD_n_category(dup, PD_charged_hd) = n_charged_had[e]
                      /\ PD_n_category(dup, PD_lepton) = n_lepton[e]
                      /\ PD_n_category(dup, PD_photon) = n_photon[e]
                      /\ PD_n_category(dup, PD_neutral) = n_neutral_had[e]

\* a returned call with an event of two rows of one photon and an event of
\* two different particles
C22_Witness ==
    /\ pd_pc = "done"
    /\ \E e \in DOMAIN n_particles :
          /\ Len(event_list[e]) = 2
          /\ event_list[e][1] = event_list[e][2]
          /\ n_particles[e] = 1 /\ n_photon[e] = 1 /\ n_lepton[e] = 0
    /\ \E e \in DOMAIN n_particles :
          /\ n_particles[e] = 2
          /\ n_charged_had[e] = 1 /\ n_neutral_had[e] = 1

(***************************************************************************)
(* analyse: the loop over the files and their endcaps                      *)
(***************************************************************************)
MaxFiles == 2

MaxEndcaps == 3

\* files_to_be_tested, each file given by the number of its endcaps
FileLists == UNION {[1..n -> 0..MaxEndcaps] : n \in 0..MaxFiles}

\* the values of --nevents: -1 (no limit) or a limit
NEventsValues == {-1, 0, 1, 2}

\* (nevents != -1) and (j > nevents): the endcap is skipped
AN_skip(n, j) == n # -1 /\ j > n

\* faulty variant: the counter is not advanced
AN_next_event_id_Kept(e) == e

\* event_id += 1
AN_next_event_id(e) == e + 1

\* the next file is opened
AnalyseFile ==
    /\ an_pc = "files" /\ an_i < Len(file_lengths)
    /\ an_pc' = "endcaps"
    /\ an_j' = 0
    /\ UNCHANGED <<file_lengths, nevents, an_i, event_id, processed_events,
                   ratioVars, phiVars, jetVars, distVars>>

\* one iteration of the loop over the endcaps of the file
AnalyseEndcap ==
    /\ an_pc = "endcaps" /\ an_j < file_lengths[an_i + 1]
    /\ IF AN_skip(nevents, an_j)
       THEN UNCHANGED <<event_id, processed_events>>
       ELSE /\ processed_events' =
                   Append(processed_events,
                          [file |-> an_i, endcap |-> an_j, event_id |-> event_id])
            /\ event_id' = AN_next_event_id(event_id)
    /\ an_j' = an_j + 1
    /\ UNCHANGED <<an_pc, file_lengths, nevents, an_i,
                   ratioVars, phiVars, jetVars, distVars>>

\* the endcaps of the file are exhausted
AnalyseFileEnd ==
    /\ an_pc = "endcaps" /\ an_j >= file_lengths[an_i + 1]
    /\ an_pc' = "files"
    /\ an_i' = an_i + 1
    /\ UNCHANGED <<file_lengths, nevents, an_j, event_id, processed_events,
                   ratioVars, phiVars, jetVars, distVars>>

\* the files are exhausted
AnalyseLoopEnd ==
    /\ an_pc = "files" /\ an_i >= Len(file_lengths)
    /\ an_pc' = "done"
    /\ UNCHANGED <<file_lengths, nevents, an_i, an_j, event_id, processed_events,
                   ratioVars, phiVars, jetVars, distVars>>

InitAn ==
    /\ RatioIdle
    /\ PhiIdle
    /\ JetIdle
    /\ DistIdle
    /\ an_pc = "files"
    /\ file_lengths \in FileLists
    /\ nevents \in NEventsValues
    /\ an_i = 0
    /\ an_j = 0
    /\ event_id = 0
    /\ processed_events = <<>>

NextAn ==
    \/ AnalyseFile
    \/ AnalyseEndcap
    \/ AnalyseFileEnd
    \/ AnalyseLoopEnd

SpecAn == InitAn /\ [][NextAn]_vars

(***************************************************************************)
(* Claims about analyse                                                    *)
(***************************************************************************)
\* C23: every processed event has an event id greater than the id of every
\* event processed before it, so the ids are unique over the whole run,
\* across files and whatever --nevents skips.
C23_EventIdsIncrease ==
    /\ \A x, y \in DOMAIN processed_events :
          x < y => processed_events[x].event_id < processed_events[y].event_id
    /\ \A x \in DOMAIN processed_events :
          processed_events[x].event_id < event_id

\* a finished run over two files in which an endcap was skipped
C23_Witness ==
    /\ an_pc = "done"
    /\ nevents # -1
    /\ Len(file_lengths) = 2
    /\ file_lengths[1] > nevents + 1
    /\ \E x, y \in DOMAIN processed_events :
          /\ processed_events[x].file = 0 /\ processed_events[y].file = 1
          /\ processed_events[x].event_id < processed_events[y].event_id

\* the events of file f (f = 0, 1, ...) that were processed
ProcessedOf(f) == {x \in DOMAIN processed_events : processed_events[x].file = f}

\* C24: with --nevents N, N # -1, at most N events of each file are
\* processed; with -1 every event of every file is processed.
C24_Original ==
    an_pc = "done" =>
        \A f \in DOMAIN file_lengths :
            IF nevents = -1
            THEN Cardinality(ProcessedOf(f - 1)) = file_lengths[f]
            ELSE Cardinality(ProcessedOf(f - 1)) <= nevents

====
